---- MODULE Spec2Model ----
(***************************************************************************)
(* A model of pymctoolslib: the NBT list wrapper (NbtListObject) and the   *)
(* player inventory built on it (PlayerInventory.add_item / stack_item).   *)
(***************************************************************************)
EXTENDS Integers, Sequences, FiniteSets, TLC

(***************************************************************************)
(* Optional values: a tag that may be absent from a compound, or a Python  *)
(* None.                                                                   *)
(***************************************************************************)
None == <<>>

Some(x) == <<x>>

Val(o) == o[1]

(***************************************************************************)
(* Bounds of the exploration.                                              *)
(***************************************************************************)
\* number of add_item / stack_item calls made on one inventory
MaxOps == 2

\* number of insert / delete calls made on one list view
MaxListOps == 3

\* longest list node a list view is constructed over
MaxListLen == 2

(***************************************************************************)
(* Slot addresses.                                                         *)
(***************************************************************************)
\* class ArmorSlot
HEAD == 103

CHEST == 102

LEGS == 101

FEET == 100

OFFHAND == -106

\* range(36) in PlayerInventory.__init__
MainSlotCount == 36

\* the length PlayerInventory.__init__ takes for a full inventory
FullLength == 40

MainSlots == 0 .. (MainSlotCount - 1)

ArmorSlots == FEET .. HEAD

(***************************************************************************)
(* Lists kept by the code as Python lists: sorted(), pop(0), remove().     *)
(***************************************************************************)
RECURSIVE sorted(_)
sorted(S) ==
    IF S = {} THEN <<>>
    ELSE LET m == CHOOSE x \in S : \A y \in S : x <= y
         IN  <<m>> \o sorted(S \ {m})

Elems(q) == {q[i] : i \in 1 .. Len(q)}

\* list.remove(x): drops the first occurrence of x
remove(q, x) ==
    LET i == CHOOSE k \in 1 .. Len(q) : q[k] = x /\ \A j \in 1 .. (k - 1) : q[j] # x
    IN  SubSeq(q, 1, i - 1) \o SubSeq(q, i + 1, Len(q))

(***************************************************************************)
(* The item type catalog.  An identifier is the sequence of its            *)
(* '_'-separated parts, so that strid.split('_')[-1] is its last part.     *)
(***************************************************************************)
\* ItemTypes._armor_slots, the string keys: HEAD - (index % 4)
armor_slots(part) ==
    CASE part = "helmet"     -> Some(HEAD - 0)
      [] part = "chestplate" -> Some(HEAD - 1)
      [] part = "leggings"   -> Some(HEAD - 2)
      [] part = "boots"      -> Some(HEAD - 3)
      [] OTHER               -> None

\* the entries of the item data files the model loads
CatalogData == {
    [strid |-> <<"minecraft:arrow">>,            meta |-> None, name |-> "Arrow",
     maxdamage |-> 0,    stacksize |-> 64],
    [strid |-> <<"minecraft:snowball">>,         meta |-> None, name |-> "Snowball",
     maxdamage |-> 0,    stacksize |-> 16],
    [strid |-> <<"minecraft:stone">>,            meta |-> None, name |-> "Stone",
     maxdamage |-> 0,    stacksize |-> 64],
    [strid |-> <<"minecraft:coal">>,             meta |-> Some(0), name |-> "Coal",
     maxdamage |-> 0,    stacksize |-> 64],
    [strid |-> <<"minecraft:coal">>,             meta |-> Some(1), name |-> "Charcoal",
     maxdamage |-> 0,    stacksize |-> 64],
    [strid |-> <<"minecraft:diamond", "sword">>, meta |-> None, name |-> "Diamond Sword",
     maxdamage |-> 1561, stacksize |-> 1],
    [strid |-> <<"minecraft:iron", "helmet">>,   meta |-> None, name |-> "Iron Helmet",
     maxdamage |-> 165,  stacksize |-> 1],
    [strid |-> <<"minecraft:iron", "chestplate">>, meta |-> None, name |-> "Iron Chestplate",
     maxdamage |-> 240,  stacksize |-> 1],
    [strid |-> <<"minecraft:iron", "leggings">>, meta |-> None, name |-> "Iron Leggings",
     maxdamage |-> 225,  stacksize |-> 1],
    [strid |-> <<"minecraft:iron", "boots">>,    meta |-> None, name |-> "Iron Boots",
     maxdamage |-> 195,  stacksize |-> 1] }

\* ItemTypes.add_item: the armor slot of a registered type comes from the
\* last '_'-separated part of its identifier
ItemTypes_add_item(t) ==
    [strid     |-> t.strid,
     meta      |-> t.meta,
     name      |-> t.name,
     maxdamage |-> t.maxdamage,
     stacksize |-> t.stacksize,
     armorslot |-> armor_slots(t.strid[Len(t.strid)])]

\* ItemTypes.items
ItemTypes_items == {ItemTypes_add_item(t) : t \in CatalogData}

\* ItemTypes.findItem for a string identifier: the exact (id, meta) entry,
\* else the entry registered with meta None
findItem(itemid, meta) ==
    LET exact == {t \in ItemTypes_items : t.strid = itemid /\ t.meta = Some(meta)}
        m     == IF exact = {} THEN None ELSE Some(meta)
    IN  CHOOSE t \in ItemTypes_items : t.strid = itemid /\ t.meta = m

\* ItemType.is_armor
is_armor(t) == t.armorslot # None

(***************************************************************************)
(* Items.  An Item wraps a compound with the tags id, Damage, Count, the   *)
(* optional Slot and the optional custom name of tag.display.Name.         *)
(***************************************************************************)
Item(id, damage, count, slot, display) ==
    [id |-> id, Damage |-> damage, Count |-> count, Slot |-> slot, display |-> display]

\* BaseItem.__init__: item.type
type(item) == findItem(item.id, item.Damage)

\* BaseItem.key
key(item) == <<item.id, item.Damage>>

\* BaseItem.name: "<custom> [<type name>]" or the type name
name(item) ==
    IF item.display # None THEN <<Val(item.display), type(item).name>>
    ELSE <<type(item).name>>

\* set_slot that leaves the Slot tag as it is
set_slot_noop(item, slot) == item

\* Item.set_slot: overwrite the Slot tag or add it
set_slot(item, slot) == [item EXCEPT !.Slot = Some(slot)]

(***************************************************************************)
(* The state.                                                              *)
(*   inv         the Inventory's elements in storage order (the cached     *)
(*               Item objects; each wraps the compound at the same         *)
(*               position of the list node)                                *)
(*   free_slots  PlayerInventory.free_slots, a Python list                 *)
(*   free_armor  PlayerInventory.free_armor, a Python list                 *)
(*   call        the last call made on the inventory: its arguments, its   *)
(*               outcome, the caller's item after it and the state before  *)
(*   nops        calls made so far                                         *)
(*   _list       NbtListObject._list, the cached element objects           *)
(*   _nbt        NbtListObject._nbt, the underlying list node              *)
(*   lcall       the last call made on the list view                       *)
(*   lops        list calls made so far                                    *)
(*   heap        the nodes of a tree of tags; a node is known by its       *)
(*               position in heap                                          *)
(*   v           a view (NbtObject or NbtListObject) over a node of heap   *)
(*   v2          the view v.clone() returned, None before the call         *)
(*   tcall       the last call made on v or v2                             *)
(*   tops        calls made on the views so far                            *)
(*   items       ItemTypes.items, the registered item types                *)
(*   icall       the last Item construction                                *)
(*   iops        Items constructed so far                                  *)
(***************************************************************************)
VARIABLES inv, free_slots, free_armor, call, nops, _list, _nbt, lcall, lops,
          heap, v, v2, tcall, tops, items, icall, iops

vars == <<inv, free_slots, free_armor, call, nops, _list, _nbt, lcall, lops,
          heap, v, v2, tcall, tops, items, icall, iops>>

invVars == <<inv, free_slots, free_armor, call, nops>>

listVars == <<_list, _nbt, lcall, lops>>

treeVars == <<heap, v, v2, tcall, tops>>

catVars == <<items, icall, iops>>

\* the views over a tree are not used by this specification
TreeIdle ==
    /\ heap = <<>>
    /\ v = [class |-> "", nbt |-> 0, list |-> <<>>]
    /\ v2 = None
    /\ tcall = [op |-> "init"]
    /\ tops = 0

\* the catalog is not changed by this specification
CatIdle ==
    /\ items = {}
    /\ icall = [op |-> "init"]
    /\ iops = 0

(***************************************************************************)
(* A running call works on a record s:                                     *)
(*   inv, free_slots, free_armor   the inventory                           *)
(*   objs    the Item objects the call holds outside the inventory:        *)
(*           objs[1] is the caller's item, the others are clones           *)
(*   exc     the exception raised, "" if none                              *)
(*   slot    the slot add_item returned                                    *)
(*   count   stack_item's remaining count                                  *)
(*   slots   stack_item's list of (slot, amount)                           *)
(*   adds    how many times add_item was entered                           *)
(***************************************************************************)
Start(item) ==
    [inv |-> inv, free_slots |-> free_slots, free_armor |-> free_armor,
     objs |-> <<item>>, exc |-> "", slot |-> None, count |-> 0, slots |-> <<>>,
     adds |-> 0]

\* what `raise` leaves behind
raise(s, e) == [s EXCEPT !.exc = e]

\* clone that hands back the same object instead of a copy
clone_alias(objs, r) == objs

\* NbtBase.clone: a new object over a deep copy of the data.  The clone is
\* the last object of the result.
clone(objs, r) == Append(objs, objs[r])

\* list.pop(): the last element instead of the first
pop_last(q) == [value |-> q[Len(q)], rest |-> SubSeq(q, 1, Len(q) - 1)]

\* list.pop(0)
pop(q) == [value |-> Head(q), rest |-> Tail(q)]

\* the armor step without the wear_armor test
armor_step_always(item, wear_armor, fa) ==
    IF is_armor(type(item))
    THEN IF Val(type(item).armorslot) \in Elems(fa) THEN type(item).armorslot ELSE None
    ELSE None

\* PlayerInventory.add_item, the armor step: the type's armor slot when armor
\* is to be worn, the type is armor and that slot is free; else None
armor_step(item, wear_armor, fa) ==
    IF wear_armor /\ is_armor(type(item))
    THEN IF Val(type(item).armorslot) \in Elems(fa) THEN type(item).armorslot ELSE None
    ELSE None

\* add_item whose shortcut fires when either free list is empty
add_item_either(s0, r, wear_armor, cl) ==
    LET s     == [s0 EXCEPT !.adds = @ + 1]
        item  == s.objs[r]
        aslot == armor_step(item, wear_armor, s.free_armor)
    IN  IF s.free_slots = <<>> \/ s.free_armor = <<>> THEN raise(s, "MCError")
        ELSE IF aslot = None /\ s.free_slots = <<>> THEN raise(s, "MCError")
        ELSE
          LET fa1   == IF aslot # None THEN remove(s.free_armor, Val(aslot))
                       ELSE s.free_armor
              slot  == IF aslot # None THEN Val(aslot) ELSE pop(s.free_slots).value
              fs1   == IF aslot # None THEN s.free_slots ELSE pop(s.free_slots).rest
              objs1 == IF cl THEN clone(s.objs, r) ELSE s.objs
              r1    == IF cl THEN Len(objs1) ELSE r
              objs2 == [objs1 EXCEPT ![r1] = set_slot(@, slot)]
          IN  [s EXCEPT !.free_armor = fa1,
                        !.free_slots = fs1,
                        !.objs = objs2,
                        !.inv = Append(s.inv, objs2[r1]),
                        !.slot = Some(slot)]

\* PlayerInventory.add_item(item, wear_armor, clone), item being s.objs[r]
add_item(s0, r, wear_armor, cl) ==
    LET s     == [s0 EXCEPT !.adds = @ + 1]
        item  == s.objs[r]
        aslot == armor_step(item, wear_armor, s.free_armor)
    IN  IF s.free_slots = <<>> /\ s.free_armor = <<>> THEN raise(s, "MCError")
        ELSE IF aslot = None /\ s.free_slots = <<>> THEN raise(s, "MCError")
        ELSE
          LET fa1   == IF aslot # None THEN remove(s.free_armor, Val(aslot))
                       ELSE s.free_armor
              slot  == IF aslot # None THEN Val(aslot) ELSE pop(s.free_slots).value
              fs1   == IF aslot # None THEN s.free_slots ELSE pop(s.free_slots).rest
              objs1 == IF cl THEN clone(s.objs, r) ELSE s.objs
              r1    == IF cl THEN Len(objs1) ELSE r
              objs2 == [objs1 EXCEPT ![r1] = set_slot(@, slot)]
          IN  [s EXCEPT !.free_armor = fa1,
                        !.free_slots = fs1,
                        !.objs = objs2,
                        !.inv = Append(s.inv, objs2[r1]),
                        !.slot = Some(slot)]

\* the assertions without the test for zero
check_count_nozero(count, size) ==
    IF count > size THEN "ValueError" ELSE ""

\* PlayerInventory.stack_item, the assertions on the count: the exception
\* to raise, "" if none
check_count(count, size) ==
    IF count = 0 THEN "ValueError"
    ELSE IF count > size THEN "ValueError"
    ELSE ""

\* the shortcut reporting nothing left when add_item fails
stack_single_lost(s, r, count, wear_armor) ==
    LET a == add_item(s, r, wear_armor, TRUE)
    IN  IF a.exc = "MCError"
        THEN [a EXCEPT !.exc = "", !.count = 0, !.slots = <<>>]
        ELSE [a EXCEPT !.count = 0, !.slots = << <<Val(a.slot), 1>> >>]

\* PlayerInventory.stack_item, the shortcut for 1-stack items
stack_single(s, r, count, wear_armor) ==
    LET a == add_item(s, r, wear_armor, TRUE)
    IN  IF a.exc = "MCError"
        THEN [a EXCEPT !.exc = "", !.count = count, !.slots = <<>>]
        ELSE [a EXCEPT !.count = 0, !.slots = << <<Val(a.slot), 1>> >>]

\* the whole count goes onto the stack, whatever its size
stack_diff_all(size, stackCount, count) == count

\* PlayerInventory.stack_item: how much of count goes onto a stack
stack_diff(size, stackCount, count) ==
    LET total == stackCount + count
    IN  (IF size < total THEN size ELSE total) - stackCount

\* similar items whatever their display names
similar_unnamed(stack, item, size) ==
    key(stack) = key(item) /\ stack.Count < size

\* PlayerInventory.stack_item, the test of the loop: a similar item that is
\* not maximized
similar(stack, item, size) ==
    key(stack) = key(item) /\ name(stack) = name(item) /\ stack.Count < size

\* PlayerInventory.stack_item, the loop over the inventory from position i:
\* stack the item object s.objs[r] onto similar, not maximized stacks
RECURSIVE stack_loop(_, _, _, _)
stack_loop(s, r, size, i) ==
    IF i > Len(s.inv) THEN s
    ELSE
      LET stack == s.inv[i]
          item  == s.objs[r]
      IN  IF similar(stack, item, size)
          THEN LET diff == stack_diff(size, stack.Count, s.count)
                   s1   == [s EXCEPT !.inv[i].Count = @ + diff,
                                     !.count = @ - diff,
                                     !.slots = Append(@, <<Val(stack.Slot), diff>>)]
               IN  IF s1.count = 0 THEN s1 ELSE stack_loop(s1, r, size, i + 1)
          ELSE stack_loop(s, r, size, i + 1)

\* the last step letting the MCError of add_item through
stack_new_raise(m, r, wear_armor) ==
    IF m.count > 0
    THEN LET m1 == [m EXCEPT !.objs[r].Count = m.count]
             a  == add_item(m1, r, wear_armor, FALSE)
         IN  IF a.exc = "MCError"
             THEN a
             ELSE [a EXCEPT !.slots = Append(@, <<Val(a.slot), m.count>>),
                            !.count = 0]
    ELSE m

\* the last step without `count = 0` after a successful add_item
stack_new_keep(m, r, wear_armor) ==
    IF m.count > 0
    THEN LET m1 == [m EXCEPT !.objs[r].Count = m.count]
             a  == add_item(m1, r, wear_armor, FALSE)
         IN  IF a.exc = "MCError"
             THEN [a EXCEPT !.exc = ""]
             ELSE [a EXCEPT !.slots = Append(@, <<Val(a.slot), m.count>>)]
    ELSE m

\* PlayerInventory.stack_item, after the loop: what is left goes to a new slot
stack_new(m, r, wear_armor) ==
    IF m.count > 0
    THEN LET m1 == [m EXCEPT !.objs[r].Count = m.count]
             a  == add_item(m1, r, wear_armor, FALSE)
         IN  IF a.exc = "MCError"
             THEN [a EXCEPT !.exc = ""]
             ELSE [a EXCEPT !.slots = Append(@, <<Val(a.slot), m.count>>),
                            !.count = 0]
    ELSE m

\* PlayerInventory.stack_item(item, wear_armor), item being s.objs[1]
stack_item(s0, wear_armor) ==
    LET objs1 == clone(s0.objs, 1)
        r     == Len(objs1)
        size  == type(objs1[r]).stacksize
        count == objs1[r].Count
        s     == [s0 EXCEPT !.objs = objs1, !.count = count]
    IN  IF check_count(count, size) # "" THEN raise(s, check_count(count, size))
        ELSE IF size = 1 THEN stack_single(s, r, count, wear_armor)
        ELSE stack_new(stack_loop(s, r, size, 1), r, wear_armor)

\* PlayerInventory.__init__: the free lists of an inventory over a list node
PlayerInventory_init(nbt) ==
    IF Len(nbt) = FullLength
    THEN [free_slots |-> <<>>, free_armor |-> <<>>]
    ELSE LET slots == {Val(nbt[i].Slot) : i \in 1 .. Len(nbt)}
         IN  [free_slots |-> sorted(MainSlots \ slots),
              free_armor |-> sorted(ArmorSlots \ slots)]

(***************************************************************************)
(* The inventories the exploration starts from.  Main slots 0 and 5 hold   *)
(* one of a few stacks or nothing, the other main slots are all empty or   *)
(* all full, some armor slots are worn, the off-hand is held or not, and   *)
(* the storage order is by slot or the reverse.                            *)
(***************************************************************************)
Arrow == <<"minecraft:arrow">>

Snowball == <<"minecraft:snowball">>

Stone == <<"minecraft:stone">>

Coal == <<"minecraft:coal">>

Sword == <<"minecraft:diamond", "sword">>

Helmet == <<"minecraft:iron", "helmet">>

Slot0Choices == {None,
                 Some(Item(Coal, 0, 40, Some(0), None)),
                 Some(Item(Arrow, 0, 40, Some(0), None)),
                 Some(Item(Arrow, 0, 64, Some(0), None))}

Slot5Choices == {None,
                 Some(Item(Arrow, 0, 40, Some(5), None)),
                 Some(Item(Arrow, 0, 40, Some(5), Some("Bob"))),
                 Some(Item(Snowball, 0, 10, Some(5), None))}

ArmorChoices == {{}, {HEAD}, ArmorSlots}

ArmorPiece(slot) ==
    CASE slot = HEAD  -> Item(Helmet, 0, 1, Some(slot), None)
      [] slot = CHEST -> Item(<<"minecraft:iron", "chestplate">>, 0, 1, Some(slot), None)
      [] slot = LEGS  -> Item(<<"minecraft:iron", "leggings">>, 0, 1, Some(slot), None)
      [] slot = FEET  -> Item(<<"minecraft:iron", "boots">>, 0, 1, Some(slot), None)

Addresses == sorted({OFFHAND} \cup MainSlots \cup ArmorSlots)

Reverse(q) == [i \in 1 .. Len(q) |-> q[Len(q) + 1 - i]]

\* the list node of an inventory: the compounds of the held items
InventoryNbt(c0, c5, full, armor, offhand, reversed) ==
    LET at(a) == CASE a = 0            -> c0
                   [] a = 5            -> c5
                   [] a = OFFHAND      -> IF offhand
                                          THEN Some(Item(Stone, 0, 64, Some(a), None))
                                          ELSE None
                   [] a \in ArmorSlots -> IF a \in armor THEN Some(ArmorPiece(a)) ELSE None
                   [] OTHER            -> IF full
                                          THEN Some(Item(Stone, 0, 64, Some(a), None))
                                          ELSE None
        all    == [i \in 1 .. Len(Addresses) |-> at(Addresses[i])]
        held   == SelectSeq(all, LAMBDA o : o # None)
        bySlot == [i \in 1 .. Len(held) |-> Val(held[i])]
    IN  IF reversed THEN Reverse(bySlot) ELSE bySlot

NoItem == Item(<<>>, 0, 0, None, None)

NoCall ==
    [op |-> "init", item |-> NoItem, wear_armor |-> FALSE, clone |-> FALSE,
     exc |-> "", slot |-> None, count |-> 0, slots |-> <<>>, adds |-> 0,
     item_after |-> NoItem, inv |-> <<>>, free_slots |-> <<>>, free_armor |-> <<>>]

\* the list view is not used by the inventory's specification
ListIdle ==
    /\ _list = <<>>
    /\ _nbt = [list_type |-> 0, value |-> <<>>]
    /\ lcall = [op |-> "init", exc |-> ""]
    /\ lops = 0

\* PlayerInventory(nbt) over one of the starting list nodes
Init ==
    /\ \E c0 \in Slot0Choices, c5 \in Slot5Choices, full \in BOOLEAN,
          armor \in ArmorChoices, offhand \in BOOLEAN, reversed \in BOOLEAN :
          LET nbt == InventoryNbt(c0, c5, full, armor, offhand, reversed)
          IN  /\ inv = nbt
              /\ free_slots = PlayerInventory_init(nbt).free_slots
              /\ free_armor = PlayerInventory_init(nbt).free_armor
    /\ call = NoCall
    /\ nops = 0
    /\ ListIdle
    /\ TreeIdle
    /\ CatIdle

(***************************************************************************)
(* The calls.  The caller passes an item of its own, not an element of     *)
(* the inventory.  add_item is given well-formed items (0 < Count <=       *)
(* stack limit); stack_item is also given the counts it rejects.           *)
(***************************************************************************)
AddInputs ==
    ({Item(Arrow, 0, 30, None, None), Item(Sword, 0, 1, Some(9), None)}
        \X {TRUE} \X BOOLEAN)
    \cup ({Item(Helmet, 0, 1, None, None)} \X BOOLEAN \X BOOLEAN)

StackInputs ==
    ({Item(Arrow, 0, 0, None, None), Item(Arrow, 0, 30, None, None),
      Item(Arrow, 0, 65, None, None), Item(Arrow, 0, 30, None, Some("Bob")),
      Item(Snowball, 0, 16, None, None), Item(Coal, 1, 30, None, None),
      Item(Sword, 0, 1, Some(9), None), Item(Sword, 0, 2, None, None)}
        \X {TRUE})
    \cup ({Item(Helmet, 0, 1, None, None)} \X BOOLEAN)

\* what a call leaves in the state
Done(op, item, wear_armor, cl, s) ==
    /\ inv' = s.inv
    /\ free_slots' = s.free_slots
    /\ free_armor' = s.free_armor
    /\ call' = [op |-> op, item |-> item, wear_armor |-> wear_armor, clone |-> cl,
                exc |-> s.exc, slot |-> s.slot, count |-> s.count, slots |-> s.slots,
                adds |-> s.adds, item_after |-> s.objs[1],
                inv |-> inv, free_slots |-> free_slots, free_armor |-> free_armor]
    /\ nops' = nops + 1
    /\ UNCHANGED <<listVars, treeVars, catVars>>

\* inventory.add_item(item, wear_armor, clone)
AddItem ==
    /\ nops < MaxOps
    /\ \E in \in AddInputs :
          Done("add_item", in[1], in[2], in[3], add_item(Start(in[1]), 1, in[2], in[3]))

\* inventory.stack_item(item, wear_armor)
StackItem ==
    /\ nops < MaxOps
    /\ \E in \in StackInputs :
          Done("stack_item", in[1], in[2], TRUE, stack_item(Start(in[1]), in[2]))

Next == AddItem \/ StackItem

Spec == Init /\ [][Next]_vars

(***************************************************************************)
(* Properties of the inventory.                                            *)
(***************************************************************************)
RECURSIVE SumAmounts(_)
SumAmounts(slots) ==
    IF slots = <<>> THEN 0 ELSE Head(slots)[2] + SumAmounts(Tail(slots))

Min(S) == CHOOSE x \in S : \A y \in S : x <= y

\* the slots held by the items of an inventory
Occupied(q) == {Val(q[i].Slot) : i \in 1 .. Len(q)}

\* the elements the inventory had before the call are as they were
OldItemsKept == SubSeq(inv, 1, Len(call.inv)) = call.inv

\* the call changed nothing in the inventory
Untouched ==
    /\ inv = call.inv
    /\ free_slots = call.free_slots
    /\ free_armor = call.free_armor

\* stack_item returned (it did not raise)
StackReturned == call.op = "stack_item" /\ call.exc = ""

\* at the call, armor was preferred, the item's type was armor and its
\* designated armor slot was free
DesignatedFree ==
    /\ call.wear_armor
    /\ type(call.item).armorslot # None
    /\ Val(type(call.item).armorslot) \in Elems(call.free_armor)

\* C1: whenever stack_item returns (remaining, deltas), the count of the
\* item passed in equals remaining plus the sum of the amounts in deltas.
C1_StackingConservation ==
    StackReturned => call.item.Count = call.count + SumAmounts(call.slots)

\* stack_item merged into an existing stack and the add_item for the rest failed
C1_Witness ==
    /\ StackReturned
    /\ call.count > 0
    /\ call.slots # <<>>
    /\ call.adds = 1

\* C2: no item of the inventory has a Count above its type's stack limit,
\* initially and after any calls.
C2_StackCap ==
    \A i \in 1 .. Len(inv) : inv[i].Count <= type(inv[i]).stacksize

\* stack_item filled an existing stack up to its limit and opened a new one
C2_Witness ==
    /\ StackReturned
    /\ Len(inv) = Len(call.inv) + 1
    /\ \E i \in 1 .. Len(call.inv) :
          /\ call.inv[i].Count < type(inv[i]).stacksize
          /\ inv[i].Count = type(inv[i]).stacksize

\* C3: free_slots is exactly the main addresses held by no item, free_armor
\* is exactly the armor addresses held by no item, and no two items have the
\* same Slot.
C3_SlotPartition ==
    /\ Elems(free_slots) = MainSlots \ Occupied(inv)
    /\ Elems(free_armor) = ArmorSlots \ Occupied(inv)
    /\ \A i, j \in 1 .. Len(inv) : i # j => inv[i].Slot # inv[j].Slot

\* C4: when add_item succeeds (called by the caller or by stack_item), the
\* slot it returns is the type's designated armor slot if armor is
\* preferred, the type is armor and that slot is free; otherwise it is the
\* lowest free main slot at the time of the call.  It is never the off-hand
\* address.
C4_SlotSelection ==
    call.slot # None =>
        /\ call.slot = IF DesignatedFree THEN type(call.item).armorslot
                       ELSE Some(Min(Elems(call.free_slots)))
        /\ Val(call.slot) # OFFHAND

\* add_item put an armor item into a main slot, its armor slot being taken,
\* with several main slots free
C4_Witness ==
    /\ call.op = "add_item" /\ call.exc = ""
    /\ call.wear_armor
    /\ type(call.item).armorslot # None
    /\ ~DesignatedFree
    /\ Len(call.free_slots) > 1

\* C5: add_item raises MCError whenever no target slot can be selected (no
\* free main slot, and the armor step selected none), and a failing call
\* leaves the items and both free lists unchanged.
C5_AddItemFails ==
    call.op = "add_item" =>
        /\ (call.free_slots = <<>> /\ ~DesignatedFree) => call.exc = "MCError"
        /\ call.exc = "MCError" => Untouched

\* add_item failed although an armor slot was free
C5_Witness ==
    /\ call.op = "add_item" /\ call.exc = "MCError"
    /\ call.free_slots = <<>>
    /\ call.free_armor # <<>>

\* C6: a successful add_item takes the returned slot, and nothing else, from
\* exactly one free list; appends one element, whose Slot is the returned
\* slot; keeps the elements that were there; and with clone=True leaves the
\* caller's item as it was.
C6_AddItemEffect ==
    (call.op = "add_item" /\ call.exc = "") =>
        LET slot == Val(call.slot)
            took(now, was) == /\ slot \in Elems(was)
                              /\ Elems(now) = Elems(was) \ {slot}
                              /\ Len(now) = Len(was) - 1
        IN  /\ \/ took(free_slots, call.free_slots) /\ free_armor = call.free_armor
               \/ took(free_armor, call.free_armor) /\ free_slots = call.free_slots
            /\ Len(inv) = Len(call.inv) + 1
            /\ OldItemsKept
            /\ inv[Len(inv)].Slot = call.slot
            /\ call.clone => call.item_after = call.item

\* add_item(clone=True) added an item that came with a Slot tag of its own
C6_Witness ==
    /\ call.op = "add_item" /\ call.exc = ""
    /\ call.clone
    /\ call.item.Slot # None
    /\ call.item.Slot # call.slot

\* C7: the item passed to stack_item is the same after the call as before,
\* whether the call returns or raises.
C7_OriginalUnchanged ==
    call.op = "stack_item" => call.item_after = call.item

\* stack_item wrote the remainder into its working copy and attached it
C7_Witness ==
    /\ StackReturned
    /\ Len(inv) = Len(call.inv) + 1
    /\ inv[Len(inv)].Count # call.item.Count

\* C8: stack_item raises ValueError if the item's count is 0 or above its
\* type's stack limit, and then nothing in the inventory has changed.
C8_Precondition ==
    (/\ call.op = "stack_item"
     /\ \/ call.item.Count = 0
        \/ call.item.Count > type(call.item).stacksize) =>
        /\ call.exc = "ValueError"
        /\ Untouched

\* stack_item was called with a count of 0
C8_Witness ==
    /\ call.op = "stack_item"
    /\ call.item.Count = 0
    /\ call.exc = "ValueError"

\* C9: for an item whose type has stack limit 1, stack_item enters add_item
\* once and leaves the existing elements alone; it returns (0, [(slot, 1)])
\* for the slot of the new element, or (count, []) with nothing changed.
C9_NonStackable ==
    (StackReturned /\ type(call.item).stacksize = 1) =>
        /\ call.adds = 1
        /\ OldItemsKept
        /\ \/ /\ Len(inv) = Len(call.inv) + 1
              /\ call.count = 0
              /\ call.slots = << <<Val(inv[Len(inv)].Slot), 1>> >>
              /\ call.slot = inv[Len(inv)].Slot
           \/ /\ Untouched
              /\ call.count = call.item.Count
              /\ call.slots = <<>>
              /\ call.slot = None

\* stack_item could not place a 1-stack item
C9_Witness ==
    /\ StackReturned
    /\ type(call.item).stacksize = 1
    /\ call.count = 1
    /\ Untouched

\* C16 and C17 speak of stack_item on a stackable item: the limit of the
\* item's type, and the entries as they were at the call
Limit == type(call.item).stacksize

\* how much entry i could take: up to the limit if it is similar, else 0
Room(i) ==
    IF /\ key(call.inv[i]) = key(call.item)
       /\ name(call.inv[i]) = name(call.item)
       /\ call.inv[i].Count < Limit
    THEN Limit - call.inv[i].Count
    ELSE 0

\* what is left of the item's count on arriving at entry i in storage order
RECURSIVE Remaining(_)
Remaining(i) ==
    IF i = 1 THEN call.item.Count
    ELSE LET before == Remaining(i - 1)
         IN  IF before > Room(i - 1) THEN before - Room(i - 1) ELSE 0

\* what entry i receives
Given(i) == IF Remaining(i) < Room(i) THEN Remaining(i) ELSE Room(i)

\* the (Slot, diff) of the entries that received something, in storage order
Merged ==
    SelectSeq([i \in 1 .. Len(call.inv) |-> <<Val(call.inv[i].Slot), Given(i)>>],
              LAMBDA d : d[2] > 0)

\* C16: stack_item on a stackable item visits the entries in storage order;
\* an entry of the same key and display name below the limit receives
\* min(limit, Count + remaining) - Count and is recorded with its Slot, in
\* visiting order, until nothing remains; the other entries keep their
\* Count; a remainder goes to add_item as a last delta.
C16_MergeRule ==
    (StackReturned /\ Limit > 1) =>
        LET n    == Len(call.inv)
            left == Remaining(n + 1)
        IN  /\ \A i \in 1 .. n :
                  inv[i] = [call.inv[i] EXCEPT !.Count = @ + Given(i)]
            /\ \A i \in 1 .. n : Room(i) = 0 => inv[i].Count = call.inv[i].Count
            /\ SubSeq(call.slots, 1, Len(Merged)) = Merged
            /\ IF left = 0
               THEN call.adds = 0 /\ call.slots = Merged /\ call.count = 0 /\ Len(inv) = n
               ELSE /\ call.adds = 1
                    /\ \/ /\ call.slot # None
                          /\ call.slots = Append(Merged, <<Val(call.slot), left>>)
                          /\ call.count = 0
                          /\ Len(inv) = n + 1
                          /\ inv[n + 1].Count = left
                          /\ inv[n + 1].Slot = call.slot
                       \/ /\ call.slot = None
                          /\ call.slots = Merged
                          /\ call.count = left
                          /\ Len(inv) = n

\* 30 arrows were stacked on an inventory holding 40 arrows at slot 5 with
\* main slot 0 free: (0, [(5, 24), (0, 6)])
C16_Witness ==
    /\ StackReturned
    /\ call.item.Count = 30
    /\ \E i \in 1 .. Len(call.inv) :
          /\ call.inv[i].Slot = Some(5)
          /\ call.inv[i].Count = 40
          /\ inv[i].Count = 64
    /\ call.count = 0
    /\ call.slots = << <<5, 24>>, <<0, 6>> >>

\* stack_item on a stackable item merged something and its add_item for
\* the rest failed
MergedThenFailed ==
    /\ call.op = "stack_item"
    /\ Limit > 1
    /\ call.slots # <<>>
    /\ call.adds = 1
    /\ call.slot = None

\* C17: when stack_item merged some units and the add_item for the rest
\* fails, it does not raise; it returns the unplaced units as remaining > 0,
\* the increases of the existing stacks stay, no entry is added and both
\* free lists are as they were.
C17_PartialStacking ==
    MergedThenFailed =>
        /\ call.exc = ""
        /\ call.count > 0
        /\ call.count = call.item.Count - SumAmounts(call.slots)
        /\ Len(inv) = Len(call.inv)
        /\ free_slots = call.free_slots
        /\ free_armor = call.free_armor
        /\ \A k \in 1 .. Len(call.slots) :
              /\ call.slots[k][2] > 0
              /\ \E i \in 1 .. Len(inv) :
                    /\ inv[i].Slot = Some(call.slots[k][1])
                    /\ inv[i].Count = call.inv[i].Count + call.slots[k][2]
        /\ \A i \in 1 .. Len(inv) : inv[i].Count >= call.inv[i].Count

\* 30 arrows met a stack of 40 in an inventory with no free main slot: 24
\* were merged, 6 are returned
C17_Witness ==
    /\ MergedThenFailed
    /\ call.exc = ""
    /\ call.item.Count = 30
    /\ call.count = 6
    /\ call.slots = << <<5, 24>> >>
    /\ call.free_slots = <<>>

\* C21: when stack_item on a stackable item returns remaining > 0, every
\* entry with the key and display name of the input is at the stack limit,
\* free_slots is empty and the inventory has the length it had; when it
\* returns remaining = 0, the inventory has grown by at most one entry.
C21_MaximalPlacement ==
    (StackReturned /\ Limit > 1) =>
        /\ call.count > 0 =>
              /\ \A i \in 1 .. Len(inv) :
                    (key(inv[i]) = key(call.item) /\ name(inv[i]) = name(call.item))
                        => inv[i].Count = Limit
              /\ free_slots = <<>>
              /\ Len(inv) = Len(call.inv)
        /\ call.count = 0 =>
              /\ Len(call.inv) <= Len(inv)
              /\ Len(inv) <= Len(call.inv) + 1

\* a named item was left over after filling the stack of its name, while a
\* stack of the same key under another name stays below the limit
C21_Witness ==
    /\ StackReturned
    /\ Limit > 1
    /\ call.count > 0
    /\ \E i \in 1 .. Len(inv) :
          /\ key(inv[i]) = key(call.item)
          /\ name(inv[i]) = name(call.item)
          /\ call.inv[i].Count < Limit
    /\ \E i \in 1 .. Len(inv) :
          /\ key(inv[i]) = key(call.item)
          /\ name(inv[i]) # name(call.item)
          /\ inv[i].Count < Limit

(***************************************************************************)
(* The list view, NbtListObject, over a list node.  A node is a tag kind   *)
(* and an identity; the list node holds its element kind and its nodes; an *)
(* element object holds the node it wraps.  Indexes are Python's: from 0,  *)
(* negative ones counting from the end.                                    *)
(***************************************************************************)
\* class NbtTag
TAG_STRING == 8

TAG_COMPOUND == 10

Node(tagID, uid) == [tagID |-> tagID, uid |-> uid]

\* NbtListObject.ElementClass(nbt)
ElementClass(nbt) == [nbt |-> nbt]

\* NbtBase.get_nbt
get_nbt(obj) == obj.nbt

\* list.insert(idx, x): the index is clamped to the list
list_insert(q, idx, x) ==
    LET n == Len(q)
        k == IF idx < 0 THEN (IF idx + n < 0 THEN 0 ELSE idx + n)
             ELSE IF idx > n THEN n ELSE idx
    IN  SubSeq(q, 1, k) \o <<x>> \o SubSeq(q, k + 1, n)

\* an integer index is in range
in_range(q, idx) == -Len(q) <= idx /\ idx < Len(q)

\* del list[idx] for an integer index in range
list_del(q, idx) ==
    LET k == IF idx < 0 THEN idx + Len(q) ELSE idx
    IN  SubSeq(q, 1, k) \o SubSeq(q, k + 2, Len(q))

\* one bound of slice(start, stop) on a list of length n
slice_bound(b, n, default) ==
    IF b = None THEN default
    ELSE IF Val(b) < 0 THEN (IF Val(b) + n < 0 THEN 0 ELSE Val(b) + n)
    ELSE IF Val(b) > n THEN n ELSE Val(b)

\* del list[start:stop]
list_del_slice(q, start, stop) ==
    LET n  == Len(q)
        lo == slice_bound(start, n, 0)
        hi == slice_bound(stop, n, n)
    IN  IF lo < hi THEN SubSeq(q, 1, lo) \o SubSeq(q, hi + 1, n) ELSE q

\* the list node's insert: a node of another kind than the list's is
\* rejected, and the list is left as it was
TAG_List_insert(nbt, idx, node) ==
    IF node.tagID # nbt.list_type
    THEN [nbt |-> nbt, exc |-> "TypeError"]
    ELSE [nbt |-> [nbt EXCEPT !.value = list_insert(@, idx, node)], exc |-> ""]

\* NbtListObject.__init__
NbtListObject_init(nbt) ==
    [i \in 1 .. Len(nbt.value) |-> ElementClass(nbt.value[i])]

\* the inventory is not used by the list view's specification
InvIdle ==
    /\ inv = <<>>
    /\ free_slots = <<>>
    /\ free_armor = <<>>
    /\ call = NoCall
    /\ nops = 0

\* NbtListObject(nbt) over a list node of up to MaxListLen nodes of one kind
InitList ==
    /\ \E kind \in {TAG_STRING, TAG_COMPOUND}, n \in 0 .. MaxListLen :
          LET nbt == [list_type |-> kind, value |-> [i \in 1 .. n |-> Node(kind, i)]]
          IN  /\ _nbt = nbt
              /\ _list = NbtListObject_init(nbt)
    /\ lcall = [op |-> "init", exc |-> ""]
    /\ lops = 0
    /\ InvIdle
    /\ TreeIdle
    /\ CatIdle

Indexes == -(MaxListLen + 1) .. (MaxListLen + 1)

\* NbtListObject.insert(idx, obj), obj wrapping a node the list has not seen
insert ==
    /\ lops < MaxListOps
    /\ \E idx \in Indexes, kind \in {TAG_STRING, TAG_COMPOUND} :
          LET obj == ElementClass(Node(kind, MaxListLen + lops + 1))
              r   == TAG_List_insert(_nbt, idx, get_nbt(obj))
          IN  /\ _list' = list_insert(_list, idx, obj)
              /\ _nbt' = r.nbt
              /\ lcall' = [op |-> "insert", exc |-> r.exc]
    /\ lops' = lops + 1
    /\ UNCHANGED <<invVars, treeVars, catVars>>

\* NbtListObject.__delitem__(idx) for an integer: the cache's del comes
\* first, then the node's; a del out of range raises and deletes nothing
delitem ==
    /\ lops < MaxListOps
    /\ \E idx \in Indexes :
          IF ~in_range(_list, idx)
          THEN /\ UNCHANGED <<_list, _nbt>>
               /\ lcall' = [op |-> "delitem", exc |-> "IndexError"]
          ELSE /\ _list' = list_del(_list, idx)
               /\ IF ~in_range(_nbt.value, idx)
                  THEN /\ UNCHANGED _nbt
                       /\ lcall' = [op |-> "delitem", exc |-> "IndexError"]
                  ELSE /\ _nbt' = [_nbt EXCEPT !.value = list_del(@, idx)]
                       /\ lcall' = [op |-> "delitem", exc |-> ""]
    /\ lops' = lops + 1
    /\ UNCHANGED <<invVars, treeVars, catVars>>

\* NbtListObject.__delitem__(slice(start, stop))
delslice ==
    /\ lops < MaxListOps
    /\ \E start, stop \in {None} \cup {Some(i) : i \in Indexes} :
          /\ _list' = list_del_slice(_list, start, stop)
          /\ _nbt' = [_nbt EXCEPT !.value = list_del_slice(@, start, stop)]
          /\ lcall' = [op |-> "delslice", exc |-> ""]
    /\ lops' = lops + 1
    /\ UNCHANGED <<invVars, treeVars, catVars>>

NextList == insert \/ delitem \/ delslice

SpecList == InitList /\ [][NextList]_vars

\* C10: the cache has as many element objects as the list node has nodes,
\* and the element at each position wraps the node at that position.
C10_ListParity ==
    /\ Len(_list) = Len(_nbt.value)
    /\ \A i \in 1 .. Len(_list) : i <= Len(_nbt.value) => get_nbt(_list[i]) = _nbt.value[i]

\* C18: an insert either puts the element into both the cache and the list
\* node, or, when the list node rejects it, leaves both as they were.
C18_AtomicInsert ==
    [][lcall'.op = "insert" =>
          IF lcall'.exc = ""
          THEN /\ Len(_list') = Len(_list) + 1
               /\ Len(_nbt'.value) = Len(_nbt.value) + 1
          ELSE /\ _list' = _list
               /\ _nbt' = _nbt]_vars

(***************************************************************************)
(* Removals from a PlayerInventory, which has the __delitem__ of           *)
(* NbtListObject: the specification of the inventory with the two deletes. *)
(***************************************************************************)
\* what a delete leaves in the state
Deleted(op, exc, q) ==
    /\ inv' = q
    /\ call' = [NoCall EXCEPT !.op = op, !.exc = exc, !.inv = inv,
                              !.free_slots = free_slots, !.free_armor = free_armor]
    /\ nops' = nops + 1
    /\ UNCHANGED <<free_slots, free_armor, listVars, treeVars, catVars>>

\* del inventory[idx]: the first or the last item
DelItem ==
    /\ nops < MaxOps
    /\ \E idx \in {0, -1} :
          IF in_range(inv, idx) THEN Deleted("delitem", "", list_del(inv, idx))
          ELSE Deleted("delitem", "IndexError", inv)

\* del inventory[start:stop]: all the items, or the first two
DelSlice ==
    /\ nops < MaxOps
    /\ \E stop \in {None, Some(2)} :
          Deleted("delslice", "", list_del_slice(inv, None, stop))

NextDel == AddItem \/ StackItem \/ DelItem \/ DelSlice

SpecDel == Init /\ [][NextDel]_vars

\* C19: after a delete by index or slice, the slots of the removed items
\* are in free_slots (0..35) or free_armor (100..103), and an inventory
\* with no items has free main slots.
C19_FreeAfterRemoval ==
    /\ call.op \in {"delitem", "delslice"} =>
          \A slot \in Occupied(call.inv) \ Occupied(inv) :
              /\ slot \in MainSlots => slot \in Elems(free_slots)
              /\ slot \in ArmorSlots => slot \in Elems(free_armor)
    /\ inv = <<>> => free_slots # <<>>

(***************************************************************************)
(* Views over a tree of tags.  A node of heap is a scalar with a value, a  *)
(* compound with named children in storage order, or a list with           *)
(* children; names[i] is the name of the child kids[i].  A view holds the  *)
(* class it was made with, the node it wraps and, for a list view, the     *)
(* cache of element objects, each known by the node it wraps.              *)
(***************************************************************************)
\* number of calls made on the views of one tree
MaxTreeOps == 3

\* most elements of the list node a list view is constructed over
MaxElems == 2

ScalarNode(value) ==
    [kind |-> "scalar", value |-> value, names |-> <<>>, kids |-> <<>>]

CompoundNode(names, kids) ==
    [kind |-> "compound", value |-> 0, names |-> names, kids |-> kids]

ListNode(kids) ==
    [kind |-> "list", value |-> 0, names |-> <<>>, kids |-> kids]

\* str.lower() on the tag names in use
lower(n) ==
    CASE n \in {"Count", "COUNT", "count"} -> "count"
      [] n \in {"id", "ID", "Id"}          -> "id"
      [] n \in {"Slot", "SLOT", "slot"}    -> "slot"

\* copy.deepcopy of the nodes kids[i], kids[i+1], ...: the heap with the
\* copies and their places in it
RECURSIVE deepcopy(_, _), deepcopy_kids(_, _, _)
deepcopy_kids(h, kids, i) ==
    IF i > Len(kids) THEN [heap |-> h, refs |-> <<>>]
    ELSE LET c    == deepcopy(h, kids[i])
             rest == deepcopy_kids(c.heap, kids, i + 1)
         IN  [heap |-> rest.heap, refs |-> <<c.ref>> \o rest.refs]

\* copy.deepcopy of the node ref: the heap with the copy and its place
deepcopy(h, ref) ==
    LET k == deepcopy_kids(h, h[ref].kids, 1)
    IN  [heap |-> Append(k.heap, [h[ref] EXCEPT !.kids = k.refs]),
         ref  |-> Len(k.heap) + 1]

\* a copy of the node alone, which shares its children with the original
copy_shallow(h, view) ==
    [heap |-> Append(h, h[view.nbt]), ref |-> Len(h) + 1]

\* NbtBase.copy
copy(h, view) == deepcopy(h, view.nbt)

\* NbtObject(nbt)
NbtObject(ref) == [class |-> "NbtObject", nbt |-> ref, list |-> <<>>]

\* NbtListObject(nbt): one element object for each node of the list
NbtListObject(h, ref) == [class |-> "NbtListObject", nbt |-> ref, list |-> h[ref].kids]

\* NbtBase.clone: self.__class__(self.copy())
clone_view(h, view) ==
    LET c == copy(h, view)
    IN  [heap |-> c.heap,
         view |-> IF view.class = "NbtObject" THEN NbtObject(c.ref)
                  ELSE NbtListObject(c.heap, c.ref)]

\* self._nbt[tag] of a compound: the child of exactly that name, or KeyError
child(h, ref, tag) ==
    LET hit == {i \in 1 .. Len(h[ref].names) : h[ref].names[i] = tag}
    IN  IF hit = {} THEN [exc |-> "KeyError", ref |-> 0]
        ELSE [exc |-> "", ref |-> h[ref].kids[CHOOSE i \in hit : TRUE]]

\* NbtObject.__getattr__, the loop over the tags from position i
RECURSIVE scan(_, _, _, _)
scan(h, ref, lowername, i) ==
    IF i > Len(h[ref].names) THEN [exc |-> "AttributeError", ref |-> 0]
    ELSE IF lower(h[ref].names[i]) = lowername THEN child(h, ref, h[ref].names[i])
    ELSE scan(h, ref, lowername, i + 1)

\* the lookup that scans for the lowered name without trying the exact one
getattr_scan(h, view, attr) == scan(h, view.nbt, lower(attr), 1)

\* NbtObject.__getattr__: the child found, not yet objectified
getattr(h, view, attr) ==
    IF child(h, view.nbt, attr).exc = "" THEN child(h, view.nbt, attr)
    ELSE scan(h, view.nbt, lower(attr), 1)

\* NbtObject.__getitem__
getitem(h, view, tag) == child(h, view.nbt, tag)

\* set that adds the tag when it is missing
setitem_create(h, view, tag, value) ==
    LET c == child(h, view.nbt, tag)
    IN  IF c.exc # ""
        THEN [heap |-> [Append(h, ScalarNode(value)) EXCEPT
                           ![view.nbt].names = Append(@, tag),
                           ![view.nbt].kids = Append(@, Len(h) + 1)],
              exc |-> ""]
        ELSE [heap |-> [h EXCEPT ![c.ref].value = value], exc |-> ""]

\* NbtObject.__setitem__
setitem(h, view, tag, value) ==
    LET c == child(h, view.nbt, tag)
    IN  IF c.exc # "" THEN [heap |-> h, exc |-> c.exc]
        ELSE [heap |-> [h EXCEPT ![c.ref].value = value], exc |-> ""]

\* contains with the fallback of __getattr__
contains_fallback(h, view, k) == getattr(h, view, k).exc = ""

\* NbtObject.__contains__: k in self._nbt
contains(h, view, k) == child(h, view.nbt, k).exc = ""

\* NbtObject.add_tag(name, value, TagClass) with the default overwrite=False
add_tag(h, view, tag, value) ==
    IF contains(h, view, tag) THEN [heap |-> h, exc |-> "MCError"]
    ELSE [heap |-> [Append(h, ScalarNode(value)) EXCEPT
                       ![view.nbt].names = Append(@, tag),
                       ![view.nbt].kids = Append(@, Len(h) + 1)],
          exc |-> ""]

\* what can be read through a view: the tree under its node and the trees
\* under its cached elements
RECURSIVE Tree(_, _)
Tree(h, ref) ==
    [kind  |-> h[ref].kind,
     value |-> h[ref].value,
     names |-> h[ref].names,
     kids  |-> [i \in 1 .. Len(h[ref].kids) |-> Tree(h, h[ref].kids[i])]]

Seen(h, view) ==
    [class |-> view.class,
     tree  |-> Tree(h, view.nbt),
     elems |-> [i \in 1 .. Len(view.list) |-> Tree(h, view.list[i])]]

\* the trees the exploration starts from
CompoundShapes == {<<"id">>, <<"id", "Count">>, <<"COUNT", "Count">>, <<"Count", "COUNT">>}

\* a compound whose i-th child is a scalar of value i
CompoundHeap(names) ==
    [i \in 1 .. Len(names) |-> ScalarNode(i)]
        \o <<CompoundNode(names, [i \in 1 .. Len(names) |-> i])>>

\* a list of n compounds, the i-th with one child Count of value i
ListHeap(n) ==
    [j \in 1 .. 2 * n |-> IF j % 2 = 1 THEN ScalarNode((j + 1) \div 2)
                          ELSE CompoundNode(<<"Count">>, <<j - 1>>)]
        \o <<ListNode([i \in 1 .. n |-> 2 * i])>>

NoTreeCall(h, view) ==
    [op |-> "init", via |-> "v", name |-> "", exc |-> "", ref |-> 0, found |-> FALSE,
     pre_heap |-> h, pre_v |-> Seen(h, view), pre_v2 |-> None]

\* the inventory and the list view are not used by the views' specification
InitTree ==
    /\ \/ \E names \in CompoundShapes :
             /\ heap = CompoundHeap(names)
             /\ v = NbtObject(Len(names) + 1)
       \/ \E n \in 0 .. MaxElems :
             /\ heap = ListHeap(n)
             /\ v = NbtListObject(ListHeap(n), 2 * n + 1)
    /\ v2 = None
    /\ tcall = NoTreeCall(heap, v)
    /\ tops = 0
    /\ InvIdle
    /\ ListIdle
    /\ CatIdle

Vias == IF v2 = None THEN {"v"} ELSE {"v", "v2"}

View(via) == IF via = "v" THEN v ELSE Val(v2)

TagNames == {"id", "Count", "COUNT", "count"}

\* what a call through the view `via` leaves in the state
TreeDone(op, via, tag, r, view) ==
    /\ heap' = r.heap
    /\ IF via = "v" THEN v' = view /\ UNCHANGED v2
       ELSE v2' = Some(view) /\ UNCHANGED v
    /\ tcall' = [op |-> op, via |-> via, name |-> tag, exc |-> r.exc, ref |-> r.ref,
                 found |-> r.found, pre_heap |-> heap, pre_v |-> Seen(heap, v),
                 pre_v2 |-> IF v2 = None THEN None ELSE Some(Seen(heap, Val(v2)))]
    /\ tops' = tops + 1
    /\ UNCHANGED <<invVars, listVars, catVars>>

\* v2 = v.clone()
Clone ==
    /\ tops < MaxTreeOps
    /\ v2 = None
    /\ LET c == clone_view(heap, v)
       IN  /\ heap' = c.heap
           /\ v2' = Some(c.view)
           /\ UNCHANGED v
           /\ tcall' = [NoTreeCall(heap, v) EXCEPT !.op = "clone"]
    /\ tops' = tops + 1
    /\ UNCHANGED <<invVars, listVars, catVars>>

\* view.name, the attribute lookup on a compound view
Get ==
    /\ tops < MaxTreeOps
    /\ \E via \in Vias, tag \in TagNames :
          /\ View(via).class = "NbtObject"
          /\ LET g == getattr(heap, View(via), tag)
             IN  TreeDone("get", via, tag,
                          [heap |-> heap, exc |-> g.exc, ref |-> g.ref, found |-> FALSE],
                          View(via))

\* view[name], the subscript lookup on a compound view
GetItem ==
    /\ tops < MaxTreeOps
    /\ \E via \in Vias, tag \in TagNames :
          /\ View(via).class = "NbtObject"
          /\ LET g == getitem(heap, View(via), tag)
             IN  TreeDone("getitem", via, tag,
                          [heap |-> heap, exc |-> g.exc, ref |-> g.ref, found |-> FALSE],
                          View(via))

\* name in view
Contains ==
    /\ tops < MaxTreeOps
    /\ \E via \in Vias, tag \in TagNames :
          /\ View(via).class = "NbtObject"
          /\ TreeDone("contains", via, tag,
                      [heap |-> heap, exc |-> "", ref |-> 0,
                       found |-> contains(heap, View(via), tag)],
                      View(via))

\* view[name] = 7
Set ==
    /\ tops < MaxTreeOps
    /\ \E via \in Vias, tag \in TagNames :
          /\ View(via).class = "NbtObject"
          /\ LET r == setitem(heap, View(via), tag, 7)
             IN  TreeDone("set", via, tag,
                          [heap |-> r.heap, exc |-> r.exc, ref |-> 0, found |-> FALSE],
                          View(via))

\* view.add_tag(name, 8, TagClass)
AddTag ==
    /\ tops < MaxTreeOps
    /\ \E via \in Vias, tag \in {"Count", "count", "Slot"} :
          /\ View(via).class = "NbtObject"
          /\ LET r == add_tag(heap, View(via), tag, 8)
             IN  TreeDone("add_tag", via, tag,
                          [heap |-> r.heap, exc |-> r.exc, ref |-> 0, found |-> FALSE],
                          View(via))

\* view.insert(idx, obj), obj an element over a new compound of the list's
\* kind with one child Count of value 9
InsertElem ==
    /\ tops < MaxTreeOps
    /\ \E via \in Vias, idx \in -1 .. 1 :
          /\ View(via).class = "NbtListObject"
          /\ LET h1   == heap \o <<ScalarNode(9), CompoundNode(<<"Count">>, <<Len(heap) + 1>>)>>
                 obj  == Len(h1)
                 view == View(via)
             IN  TreeDone("insert", via, "",
                          [heap |-> [h1 EXCEPT ![view.nbt].kids = list_insert(@, idx, obj)],
                           exc |-> "", ref |-> 0, found |-> FALSE],
                          [view EXCEPT !.list = list_insert(@, idx, obj)])

\* del view[idx]
DelElem ==
    /\ tops < MaxTreeOps
    /\ \E via \in Vias, idx \in -1 .. 1 :
          /\ View(via).class = "NbtListObject"
          /\ LET view == View(via)
             IN  IF in_range(view.list, idx)
                 THEN TreeDone("delitem", via, "",
                               [heap |-> [heap EXCEPT ![view.nbt].kids = list_del(@, idx)],
                                exc |-> "", ref |-> 0, found |-> FALSE],
                               [view EXCEPT !.list = list_del(@, idx)])
                 ELSE TreeDone("delitem", via, "",
                               [heap |-> heap, exc |-> "IndexError", ref |-> 0,
                                found |-> FALSE],
                               view)

\* view[0]["Count"] = 7, through the cached element object
SetElem ==
    /\ tops < MaxTreeOps
    /\ \E via \in Vias :
          /\ View(via).class = "NbtListObject"
          /\ View(via).list # <<>>
          /\ LET r == setitem(heap, NbtObject(View(via).list[1]), "Count", 7)
             IN  TreeDone("setelem", via, "Count",
                          [heap |-> r.heap, exc |-> r.exc, ref |-> 0, found |-> FALSE],
                          View(via))

NextTree == Clone \/ Get \/ GetItem \/ Contains \/ Set \/ AddTag \/ InsertElem \/ DelElem \/ SetElem

SpecTree == InitTree /\ [][NextTree]_vars

(***************************************************************************)
(* Properties of the views                                                 *)
(***************************************************************************)
\* the compound node the last call was made on, as it was before the call
Target == tcall.pre_heap[View(tcall.via).nbt]

\* the positions of the children of Target named exactly / ignoring case
Exact(tag) == {i \in 1 .. Len(Target.names) : Target.names[i] = tag}

AnyCase(tag) == {i \in 1 .. Len(Target.names) : lower(Target.names[i]) = lower(tag)}

Mutations == {"set", "add_tag", "insert", "delitem", "setelem"}

\* C11: a clone has the class of its original, and nothing that can be read
\* through a view (scalar values, names, element count, elements) changes
\* when a call is made through the other view.
C11_CloneIndependence ==
    /\ v2 # None => Val(v2).class = v.class
    /\ (tcall.op \in Mutations /\ tcall.via = "v2") => Seen(heap, v) = tcall.pre_v
    /\ (tcall.op \in Mutations /\ tcall.via = "v" /\ tcall.pre_v2 # None)
          => Seen(heap, Val(v2)) = Val(tcall.pre_v2)

\* a value of an element was set through the clone of a list view, and the
\* clone shows it
C11_Witness ==
    /\ tcall.op = "setelem"
    /\ tcall.via = "v2"
    /\ tcall.exc = ""
    /\ Seen(heap, Val(v2)) # Val(tcall.pre_v2)

\* C12: the attribute lookup returns the child of exactly that name if there
\* is one, else the first child in storage order whose name is equal
\* ignoring case, else fails with AttributeError; the subscript lookup
\* returns the exact child too.  Two spellings that are equal ignoring
\* case, neither an exact name, with one child matching, give the same
\* child.
C12_LookupOrder ==
    /\ tcall.op \in {"get", "getitem"} =>
          \A i \in Exact(tcall.name) : tcall.exc = "" /\ tcall.ref = Target.kids[i]
    /\ (tcall.op = "get" /\ Exact(tcall.name) = {}) =>
          /\ \A i \in AnyCase(tcall.name) :
                (\A j \in AnyCase(tcall.name) : i <= j)
                    => tcall.exc = "" /\ tcall.ref = Target.kids[i]
          /\ AnyCase(tcall.name) = {} => tcall.exc = "AttributeError"
    /\ \A via \in Vias, a \in TagNames, b \in TagNames :
          LET names == heap[View(via).nbt].names
              hit(n) == {i \in 1 .. Len(names) : names[i] = n}
              any    == {i \in 1 .. Len(names) : lower(names[i]) = lower(a)}
          IN  (/\ View(via).class = "NbtObject"
               /\ lower(a) = lower(b)
               /\ hit(a) = {} /\ hit(b) = {}
               /\ Cardinality(any) = 1)
                  => /\ getattr(heap, View(via), a).exc = ""
                     /\ getattr(heap, View(via), a) = getattr(heap, View(via), b)

\* a lookup with no exact child and two children matching ignoring case
\* returned the first of them
C12_Witness ==
    /\ tcall.op = "get"
    /\ Exact(tcall.name) = {}
    /\ Cardinality(AnyCase(tcall.name)) = 2
    /\ tcall.exc = ""

\* C13: a set succeeds only on a child of exactly that name, whose value
\* becomes the given one while no other node changes; otherwise it fails
\* with KeyError and nothing changes.  No call but add_tag changes the
\* names of a compound, and a successful add_tag appends the name.
C13_StrictSet ==
    /\ tcall.op = "set" =>
          IF Exact(tcall.name) # {}
          THEN /\ tcall.exc = ""
               /\ \A i \in Exact(tcall.name) :
                     heap = [tcall.pre_heap EXCEPT ![Target.kids[i]].value = 7]
          ELSE /\ tcall.exc = "KeyError"
               /\ heap = tcall.pre_heap
    /\ tcall.op # "add_tag" =>
          \A r \in 1 .. Len(tcall.pre_heap) : heap[r].names = tcall.pre_heap[r].names
    /\ (tcall.op = "add_tag" /\ tcall.exc = "") =>
          /\ Exact(tcall.name) = {}
          /\ heap[View(tcall.via).nbt].names = Append(Target.names, tcall.name)

\* a set failed on a name that differs from a child's name only in case
C13_Witness ==
    /\ tcall.op = "set"
    /\ tcall.exc = "KeyError"
    /\ AnyCase(tcall.name) # {}

\* C14 as stated: contains is true iff a child's name is equal exactly or
\* ignoring case.
C14_ContainsFallback ==
    tcall.op = "contains" => (tcall.found <=> AnyCase(tcall.name) # {})

\* C14: contains is true iff a child has exactly that name; a name that
\* matches a child only ignoring case is not contained.
C14_ContainsExact ==
    tcall.op = "contains" => (tcall.found <=> Exact(tcall.name) # {})

\* contains was false for a name the attribute lookup would find
C14_Witness ==
    /\ tcall.op = "contains"
    /\ ~tcall.found
    /\ AnyCase(tcall.name) # {}

(***************************************************************************)
(* The catalog as it grows.  items holds one entry for each registered     *)
(* type: the (strid, meta) and (numid, meta) it is registered under and    *)
(* the ItemType object.  Identifiers are namespaced strings, given as      *)
(* their '_'-separated parts.                                              *)
(***************************************************************************)
\* number of lookups, loads and Item constructions
MaxCatOps == 3

\* the numeric ids of the catalog data
numid_of(strid) ==
    CASE strid = Stone   -> 1
      [] strid = Arrow   -> 262
      [] strid = Coal    -> 263
      [] strid = Sword   -> 276
      [] strid = Helmet  -> 306
      [] strid = <<"minecraft:iron", "chestplate">> -> 307
      [] strid = <<"minecraft:iron", "leggings">>   -> 308
      [] strid = <<"minecraft:iron", "boots">>      -> 309
      [] strid = Snowball -> 332
      [] strid = <<"minecraft:emerald">> -> 388

\* ItemType(...): the object, and the assertion that fails, if any
ItemType(numid, strid, meta, name_, obtainable, is_block, maxdamage, stacksize) ==
    LET obj == [numid |-> numid, strid |-> strid, meta |-> meta, name |-> name_,
                obtainable |-> obtainable, is_block |-> is_block,
                maxdamage |-> maxdamage, stacksize |-> stacksize,
                armorslot |-> None, removed |-> FALSE]
        ok  == /\ maxdamage = 0 \/ stacksize = 1
               /\ numid = None \/ (is_block <=> Val(numid) < 256)
               /\ is_block \/ obtainable
               /\ stacksize \in {1, 16, 64}
               /\ obj.armorslot = None \/ maxdamage > 0
    IN  [exc |-> IF ok THEN "" ELSE "AssertionError", obj |-> obj]

\* ItemTypes._armor_slots.get(numid, ItemTypes._armor_slots.get(suffix))
armor_slot_of(numid, strid) ==
    IF 298 <= numid /\ numid <= 317 THEN Some(HEAD - ((numid - 298) % 4))
    ELSE armor_slots(strid[Len(strid)])

\* ItemTypes.add_item(item, prefix, duplicate_prefix) on the catalog cat, for
\* an identifier that has its prefix
catalog_add_item(cat, item, duplicate_prefix) ==
    LET meta  == item.meta
        dup   == \E e \in cat : e.strid = item.strid /\ e.meta = meta
        strid == IF dup THEN <<duplicate_prefix \o ":" \o Head(item.strid)>> \o Tail(item.strid)
                 ELSE item.strid
        numid == IF item.numid = None THEN Min({e.numid : e \in cat}) - 1
                 ELSE Val(item.numid)
        obj   == [item EXCEPT !.removed = dup,
                              !.armorslot = armor_slot_of(numid, strid)]
    IN  IF \E e \in cat : e.numid = numid /\ e.meta = meta
        THEN [exc |-> "KeyError", cat |-> cat, item |-> item]
        ELSE [exc |-> "", item |-> obj,
              cat |-> cat \cup {[strid |-> strid, meta |-> meta, numid |-> numid,
                                 item |-> obj]}]

\* ItemTypes._load_old_json, one single-data or per-meta entry d of the data
load_entry(cat, d) ==
    LET t == ItemType(Some(d.numid), d.strid, d.meta, d.name, TRUE, d.numid < 256,
                      d.maxdamage, d.stacksize)
    IN  IF t.exc # "" THEN [exc |-> t.exc, cat |-> cat, item |-> t.obj]
        ELSE catalog_add_item(cat, t.obj, "removed")

\* ItemTypes._load_default_items: air, then the entries of the data
RECURSIVE load_all(_, _)
load_all(cat, data) ==
    IF data = {} THEN cat
    ELSE LET d == CHOOSE x \in data : TRUE
         IN  load_all(load_entry(cat, d).cat, data \ {d})

Air == ItemType(Some(0), <<"minecraft:air">>, None, "Air", FALSE, TRUE, 0, 64).obj

LoadedCatalog ==
    load_all(catalog_add_item({}, Air, "removed").cat,
             {[numid |-> numid_of(d.strid), strid |-> d.strid, meta |-> d.meta,
               name |-> d.name, maxdamage |-> d.maxdamage, stacksize |-> d.stacksize]
                 : d \in CatalogData})

\* ItemTypes.findItem(itemid, meta) on the catalog cat: the entry of
\* (itemid, meta), else of (itemid, None), else KeyError
catalog_findItem(cat, itemid, meta) ==
    LET m   == IF \E e \in cat : e.strid = itemid /\ e.meta = meta THEN meta ELSE None
        hit == {e \in cat : e.strid = itemid /\ e.meta = m}
    IN  IF hit = {} THEN [exc |-> "KeyError", item |-> None]
        ELSE [exc |-> "", item |-> Some((CHOOSE e \in hit : TRUE).item)]

\* str.title() of a part of an identifier, after its namespace
title(part) ==
    CASE part = "minecraft:unknown" -> "Unknown"
      [] part = "minecraft:turtle"  -> "Turtle"
      [] part = "minecraft:arrow"   -> "Arrow"
      [] part = "minecraft:coal"    -> "Coal"
      [] part = "minecraft:iron"    -> "Iron"
      [] part = "thing"             -> "Thing"
      [] part = "helmet"            -> "Helmet"

\* strid.split(':', 1)[-1].replace('_', ' ').title()
RECURSIVE derived_name(_)
derived_name(strid) ==
    IF Len(strid) = 1 THEN title(strid[1])
    ELSE title(strid[1]) \o " " \o derived_name(Tail(strid))

\* ItemType.from_item(item) for an item with a string identifier
from_item(cat, item) ==
    LET t == ItemType(None, item.id, Some(item.Damage), derived_name(item.id),
                      TRUE, FALSE, 0, item.Count)
    IN  IF t.exc # "" THEN [exc |-> t.exc, cat |-> cat, item |-> None]
        ELSE LET a == catalog_add_item(cat, t.obj, "unknown")
             IN  [exc |-> a.exc, cat |-> a.cat,
                  item |-> IF a.exc = "" THEN Some(a.item) ELSE None]

\* BaseItem.__init__: the type is looked up, and made from the item when
\* the lookup raises KeyError
BaseItem_init(cat, item) ==
    LET f == catalog_findItem(cat, item.id, Some(item.Damage))
    IN  IF f.exc = "KeyError" THEN from_item(cat, item)
        ELSE [exc |-> "", cat |-> cat, item |-> f.item]

\* the catalog after its first use
InitCatalog ==
    /\ items = LoadedCatalog
    /\ icall = [op |-> "init", id |-> <<>>, Damage |-> 0, Count |-> 0, exc |-> "",
                item |-> None, items |-> {}]
    /\ iops = 0
    /\ InvIdle
    /\ ListIdle
    /\ TreeIdle

UnknownThing == <<"minecraft:unknown", "thing">>

TurtleHelmet == <<"minecraft:turtle", "helmet">>

ItemIds == {Arrow, Coal, Helmet, UnknownThing, TurtleHelmet}

Counts == {1, 5, 16, 64}

\* what a call on the catalog leaves in the state
CatDone(op, id, damage, count, r) ==
    /\ items' = r.cat
    /\ icall' = [op |-> op, id |-> id, Damage |-> damage, Count |-> count,
                 exc |-> r.exc, item |-> r.item, items |-> items]
    /\ iops' = iops + 1
    /\ UNCHANGED <<invVars, listVars, treeVars>>

\* Item(nbt) over a compound with id, Damage and Count
NewItem ==
    /\ iops < MaxCatOps
    /\ \E id \in ItemIds, damage \in {0, 1}, count \in Counts :
          CatDone("Item", id, damage, count,
                  BaseItem_init(items, Item(id, damage, count, None, None)))

\* ItemTypes.findItem(itemid, meta)
FindItem ==
    /\ iops < MaxCatOps
    /\ \E id \in ItemIds, meta \in {None, Some(0), Some(1)} :
          LET f == catalog_findItem(items, id, meta)
          IN  CatDone("findItem", id, 0, 0, [exc |-> f.exc, cat |-> items, item |-> f.item])

\* entries of catalog data met after the first load: a new item, an item
\* with durability that stacks, and a numeric id that is taken
MoreData == {
    [numid |-> 388, strid |-> <<"minecraft:emerald">>, meta |-> None, name |-> "Emerald",
     maxdamage |-> 0, stacksize |-> 64],
    [numid |-> 388, strid |-> <<"minecraft:emerald">>, meta |-> None, name |-> "Emerald",
     maxdamage |-> 10, stacksize |-> 64],
    [numid |-> 262, strid |-> <<"minecraft:emerald">>, meta |-> None, name |-> "Emerald",
     maxdamage |-> 0, stacksize |-> 64] }

\* one more entry is loaded
Load ==
    /\ iops < MaxCatOps
    /\ \E d \in MoreData :
          LET a == load_entry(items, d)
          IN  CatDone("load", d.strid, 0, 0,
                      [exc |-> a.exc, cat |-> a.cat,
                       item |-> IF a.exc = "" THEN Some(a.item) ELSE None])

NextCatalog == NewItem \/ FindItem \/ Load

SpecCatalog == InitCatalog /\ [][NextCatalog]_vars

\* the Item was constructed over an (id, Damage) the catalog did not have
Miss ==
    /\ icall.op = "Item"
    /\ \A e \in icall.items :
          e.strid = icall.id => e.meta \notin {None, Some(icall.Damage)}

\* C15: constructing an Item over an (identifier, secondary value) that is
\* not in the catalog never raises, for any count; the Item's type is a
\* placeholder with the name derived from the identifier, durability 0 and
\* the count as stack limit.
C15_MissRecovery ==
    Miss =>
        /\ icall.exc = ""
        /\ icall.item # None
        /\ Val(icall.item).name = derived_name(icall.id)
        /\ Val(icall.item).maxdamage = 0
        /\ Val(icall.item).stacksize = icall.Count

\* C20: every type registered in the catalog has stack limit 1 if it has
\* durability, has durability if it has an armor slot, is obtainable if it
\* is not a block, and has a stack limit of 1, 16 or 64.
C20_CatalogInvariants ==
    \A e \in items :
        /\ e.item.maxdamage > 0 => e.item.stacksize = 1
        /\ e.item.armorslot # None => e.item.maxdamage > 0
        /\ ~e.item.is_block => e.item.obtainable
        /\ e.item.stacksize \in {1, 16, 64}

====
